---- MODULE Spec2Model ----
(***************************************************************************)
(* Model of the AudioEngine class of src/services/AudioEngine.ts (the      *)
(* second, complete definition of the class, lines 193-531): the voice     *)
(* table, the teardown timers set up by noteOff, the shared effects chain  *)
(* and the capture/loop state.                                             *)
(*                                                                         *)
(* Units: time in milliseconds, gains in 1/10000 (1.0 = 10000), string     *)
(* damping in 1/100, frequencies in Hz, delay lengths in microseconds.     *)
(***************************************************************************)
EXTENDS Integers, Sequences, FiniteSets, TLC

VARIABLES ctx, chain, preset, voices, activeNotes, timers, now,
          recorder, recorders, recordChunks, promises, loopSources,
          activeLoops

vars == <<ctx, chain, preset, voices, activeNotes, timers, now,
          recorder, recorders, recordChunks, promises, loopSources,
          activeLoops>>

\* everything the engine owns, the clock left out
engine == <<ctx, chain, preset, voices, activeNotes, timers,
            recorder, recorders, recordChunks, promises, loopSources,
            activeLoops>>

----------------------------------------------------------------------------
\* Bounds of the model: voice fragments built, steps of the clock, teardown
\* timers pending at once, loop playback sources built, MediaRecorders
\* built, stopRecording calls that reach recorder.stop()

MaxVoices == 2

MaxTicks == 2

MaxTimers == 1

MaxLoopSources == 2

MaxRecorders == 1

MaxStops == 2

\* teardown timers pending at once where noteOff is repeated
MaxRepeats == 2

\* MediaRecorders built where a recording is started over another
MaxTakes == 2

\* half the number of entries of the distortion table
HalfSamples == 2

\* Units and inputs

\* a gain of 1.0, the default of a GainNode
Unity == 10000

\* the step of the clock: the 100 ms of slack that noteOff adds to the release
TickMs == 100

Ids == {1, 2}

Freqs == {220, 440}

Rows == {0, 1}

LoopIds == {"a"}

ModXs == {0, 25}

ModYs == {0, 50}

Volumes == {0}

\* no entry under a key of activeNotes or activeLoops
NoEntry == 0

\* the value noteOff reads from the gain parameter when it is called
Snapshot == -1

\* no stop scheduled for a source
NoStop == -1

\* the recorder field is null; no onstop handler is set on a recorder
NoRecorder == 0

NoHandler == 0

----------------------------------------------------------------------------
\* The preset the engine is constructed with

defaultPreset ==
  [waveform |-> "guitar", filterCutoff |-> 4000, resonance |-> 3,
   attack |-> 10, release |-> 800, detune |-> 0, distortion |-> 50,
   delayFeedback |-> 4000, delayTime |-> 300, stringDamping |-> 50]

\* Partial presets handed to updatePreset, one field each, as the control
\* surface sends them; the interface also accepts values outside the
\* sliders' ranges. VoiceInputs change what the voice lifecycle depends on,
\* ChainInputs what the effects chain and the resonators depend on.
VoiceInputs ==
  { [waveform |-> w] : w \in {"guitar", "drums"} }
  \cup { [release |-> 100] }

ChainInputs ==
  { [waveform |-> w] : w \in {"sawtooth", "slide"} }
  \cup { [delayFeedback |-> g] : g \in {9000, 12000} }
  \cup { [stringDamping |-> d] : d \in {100, -40} }

\* PanelInputs are partial presets of one and of several fields, with a
\* cutoff below and above the range of the filter and the two ends of the
\* range of the drive.
PanelInputs ==
  { [filterCutoff |-> c] : c \in {10, 20000} }
  \cup { [distortion |-> a] : a \in {0, 100} }
  \cup { [waveform |-> "piano", release |-> 100] }

\* FamilyInputs select a family together with a release of 100 ms.
FamilyInputs ==
  { [waveform |-> w, release |-> 100] : w \in {"piano", "sawtooth", "guitar"} }

PresetInputs == VoiceInputs \cup ChainInputs \cup PanelInputs \cup FamilyInputs

\* { ...this.preset, ...newPreset } with the fields of old kept
mergePreset_overDefaults(old, new) ==
  [k \in DOMAIN old \cup DOMAIN new |->
     IF k \in DOMAIN new THEN new[k] ELSE defaultPreset[k]]

\* { ...this.preset, ...newPreset }
mergePreset(old, new) ==
  [k \in DOMAIN old \cup DOMAIN new |->
     IF k \in DOMAIN new THEN new[k] ELSE old[k]]

----------------------------------------------------------------------------
\* The effects chain. A field holds NoNode while the node it belongs to has
\* not been created (its field of the engine is null); curve holds NoCurve
\* while the WaveShaperNode has no table. dest tells whether the recording
\* destination exists, wires counts the connect() calls that init() has made.

NoNode == -1

NoCurve == -2

noChain ==
  [masterGain |-> NoNode, filterFreq |-> NoNode, filterQ |-> NoNode,
   delayTime |-> NoNode, delayGain |-> NoNode, curve |-> NoNode,
   dest |-> FALSE, wires |-> 0]

\* the node that owns the field has been created
has(ch, field) == ch[field] # NoNode

\* Each field is the value the parameter was last given: its value as
\* constructed or assigned, or the target of the last setTargetAtTime, which
\* the parameter then approaches from where it was.
\* init(): the nodes are created with the defaults of the Web Audio API
\* (GainNode.gain 1, BiquadFilterNode.frequency 350 and Q 1,
\* DelayNode.delayTime 0); init() itself sets only the distortion curve and
\* the master gain.
\* initSteps(k, p) is the chain after the first k statements of the body of
\* init(): 1 the context, 2 masterGain, 3 filter, 4 distortion, 5 delay,
\* 6 delayGain, 7 dest, 8 the distortion curve, 9..16 the eight connect()
\* calls, 17 the master gain set to 0.5.
initStatements == 17

initWires == 8

initSteps(k, p) ==
  [masterGain |-> IF k >= initStatements THEN 5000
                  ELSE IF k >= 2 THEN Unity ELSE NoNode,
   filterFreq |-> IF k >= 3 THEN 350 ELSE NoNode,
   filterQ |-> IF k >= 3 THEN 1 ELSE NoNode,
   curve |-> IF k >= 8 THEN p.distortion
             ELSE IF k >= 4 THEN NoCurve ELSE NoNode,
   delayTime |-> IF k >= 5 THEN 0 ELSE NoNode,
   delayGain |-> IF k >= 6 THEN Unity ELSE NoNode,
   dest |-> k >= 7,
   wires |-> IF k <= 8 THEN 0
             ELSE IF k - 8 < initWires THEN k - 8 ELSE initWires]

initChain(p) == initSteps(initStatements, p)

\* updateDistortionCurve(amount): the table handed to the WaveShaperNode.
\* amount, Math.PI and k = amount * 10 are in 1/100. Entry i
\* is (PI + k) * x / (PI + k * |x|) for x = (i * 2) / n_samples - 1, kept as
\* the fraction num / den with den > 0, which is the same value.
n_samples == 2 * HalfSamples

Pi == 314

abs(x) == IF x < 0 THEN -x ELSE x

updateDistortionCurve(amount) ==
  LET k == amount * 10
  IN  [i \in 0..(n_samples - 1) |->
         [num |-> (Pi + k) * ((i * 2) - n_samples),
          den |-> (Pi * n_samples) + (k * abs((i * 2) - n_samples))]]

\* What the WaveShaperNode does with a table of N entries: the input -1
\* reads entry 0, the input 1 reads entry N - 1, the inputs between are
\* spread evenly over the entries, linearly interpolated. shaperAt(curve, j)
\* is the output for the input -1 + 2j/(N - 1), shaperAtZero(curve) the
\* output for the input 0, halfway between the two middle entries.
shaperAt(curve, j) == curve[j]

shaperAtZero(curve) ==
  LET a == curve[HalfSamples - 1]
      b == curve[HalfSamples]
  IN  [num |-> (a.num * b.den) + (b.num * a.den), den |-> 2 * a.den * b.den]

init(c, ch, p) == IF c THEN ch ELSE initChain(p)

----------------------------------------------------------------------------
\* Voice sources. A source is the node noteOn stores as ActiveNote.oscillator:
\*   kind    the class of the returned node ("osc" OscillatorNode, "delay"
\*           DelayNode, "gain" the piano's mix GainNode, "filter" a drum's
\*           BiquadFilterNode)
\*   param   the tuned parameter: frequency in Hz for "osc", delay length in
\*           microseconds for "delay"
\*   fb, lp  feedback gain and low-pass cutoff of a string resonator loop
\*   oscs    the oscillators started for the voice and not yet stopped
\*   stopAt  the time a stop is already scheduled for (the kick), or NoStop

createStringSource(freq, feedback, damping) ==
  [kind |-> "delay", param |-> 1000000 \div freq, tc |-> 0, fb |-> feedback,
   lp |-> damping, detune |-> 0, oscs |-> 0, stopAt |-> NoStop]

createDrumSource(row, freq, t) ==
  IF row = 0
  THEN [kind |-> "osc", param |-> 150, tc |-> 0, fb |-> 0, lp |-> 0,
        detune |-> 0, oscs |-> 1, stopAt |-> t + 500]
  ELSE IF row = 1
  THEN [kind |-> "filter", param |-> 0, tc |-> 0, fb |-> 0, lp |-> 1000,
        detune |-> 0, oscs |-> 0, stopAt |-> NoStop]
  ELSE [kind |-> "filter", param |-> 0, tc |-> 0, fb |-> 0, lp |-> 7000,
        detune |-> 0, oscs |-> 0, stopAt |-> NoStop]

\* a feedback gain that ignores the damping of the preset
stringFeedback_fixed(p) == 9850

\* the body of noteOn's switch: the source node and the gain events
stringFeedback(p) == 9850 - (p.stringDamping * 5)

buildSource(p, frequency, row, t) ==
  CASE p.waveform = "piano" ->
         [kind |-> "gain", param |-> 0, tc |-> 0, fb |-> 0, lp |-> 0,
          detune |-> 0, oscs |-> 3, stopAt |-> NoStop]
    [] p.waveform \in {"guitar", "string"} ->
         createStringSource(frequency, stringFeedback(p), 8000)
    [] p.waveform = "slide" ->
         createStringSource(frequency, 9950, 12000)
    [] p.waveform = "drums" ->
         createDrumSource(row, frequency, t)
    [] OTHER ->
         [kind |-> "osc", param |-> frequency, tc |-> 0, fb |-> 0, lp |-> 0,
          detune |-> 0, oscs |-> 1, stopAt |-> NoStop]

\* gain events: k is the kind of event, v its value, t its time
buildEnvelope(p, t) ==
  CASE p.waveform = "piano" ->
         << [k |-> "set", v |-> 0, t |-> t],
            [k |-> "linear", v |-> 6000, t |-> t + 5],
            [k |-> "exponential", v |-> 100, t |-> t + 2000] >>
    [] p.waveform = "slide" ->
         << [k |-> "set", v |-> 0, t |-> t],
            [k |-> "linear", v |-> 9000, t |-> t + 100] >>
    [] p.waveform = "drums" ->
         << [k |-> "set", v |-> Unity, t |-> t],
            [k |-> "exponential", v |-> 10, t |-> t + 300] >>
    [] OTHER ->
         << [k |-> "set", v |-> 0, t |-> t],
            [k |-> "linear", v |-> 8000, t |-> t + p.attack] >>

\* the fragment noteOn builds: source -> gain -> distortion
newVoice(id, frequency, row, p, t) ==
  [id |-> id, frequency |-> frequency,
   oscillator |-> buildSource(p, frequency, row, t),
   envelope |-> buildEnvelope(p, t),
   sourceConnected |-> TRUE, connected |-> TRUE]

\* Map.set, Map.delete, Map.has on a table kept as a total function
mapSet(m, k, v) == [m EXCEPT ![k] = v]

mapDelete(m, k) == [m EXCEPT ![k] = NoEntry]

mapHas(m, k) == m[k] # NoEntry

----------------------------------------------------------------------------
TypeOK ==
  /\ ctx \in BOOLEAN
  /\ DOMAIN preset = DOMAIN defaultPreset
  /\ Len(voices) <= MaxVoices
  /\ activeNotes \in [Ids -> 0..MaxVoices]
  /\ \A i \in Ids : activeNotes[i] <= Len(voices)
  /\ \A t \in timers : t.v \in 1..Len(voices) /\ t.id \in Ids
  /\ now \in 0..(MaxTicks * TickMs)
  /\ recorder \in 0..Len(recorders)
  /\ \A r \in 1..Len(recorders) :
       /\ recorders[r].state \in {"recording", "inactive"}
       /\ recorders[r].onstop \in 0..Len(promises)
       /\ recorders[r].stopQueued \in BOOLEAN
  /\ \A k \in 1..Len(recordChunks) : recordChunks[k] \in 1..Len(recorders)
  /\ Len(promises) <= MaxStops
  /\ \A n \in 1..Len(promises) : promises[n] \in {"pending", "loop", "rejected"}
  /\ Len(loopSources) <= MaxLoopSources
  /\ activeLoops \in [LoopIds -> 0..MaxLoopSources]

Init ==
  /\ ctx = FALSE
  /\ chain = noChain
  /\ preset = defaultPreset
  /\ voices = << >>
  /\ activeNotes = [i \in Ids |-> NoEntry]
  /\ timers = {}
  /\ now = 0
  /\ recorder = NoRecorder
  /\ recorders = << >>
  /\ recordChunks = << >>
  /\ promises = << >>
  /\ loopSources = << >>
  /\ activeLoops = [l \in LoopIds |-> NoEntry]

\* an entry point whose init() throws after k statements of its body: the
\* exception leaves the entry point, which does nothing more
initThrows(k) ==
  /\ ~ctx
  /\ ctx' = (k >= 1)
  /\ chain' = initSteps(k, preset)
  /\ UNCHANGED <<preset, voices, activeNotes, timers, now, recorder, recorders,
                 recordChunks, promises, loopSources, activeLoops>>

\* noteOn(id, frequency, row): init(), then the early return unless the
\* context and the distortion node exist; the new fragment is stored under
\* id whatever was stored there
noteOn(id, frequency, row) ==
  /\ Len(voices) < MaxVoices
  /\ ctx' = TRUE
  /\ chain' = init(ctx, chain, preset)
  /\ IF has(chain', "curve")
     THEN /\ voices' = Append(voices, newVoice(id, frequency, row, preset, now))
          /\ activeNotes' = mapSet(activeNotes, id, Len(voices) + 1)
     ELSE UNCHANGED <<voices, activeNotes>>
  /\ UNCHANGED <<preset, timers, now, recorder, recorders, recordChunks,
                 promises, loopSources, activeLoops>>

\* Math.min(18000, Math.max(20, expressiveCutoff)), modY in 1/100
expressiveCutoff(p, modY) == p.filterCutoff + (modY * 40)

\* a clamp with the upper bound only
clampCutoff_upperOnly(c) == IF c < 18000 THEN c ELSE 18000

clampCutoff(c) ==
  LET lo == IF c > 20 THEN c ELSE 20
  IN  IF lo < 18000 THEN lo ELSE 18000

\* a retune chosen by the waveform of the preset at the time of the update
retune_byPreset(src, frequency) ==
  IF preset.waveform \in {"guitar", "string", "slide"}
  THEN [src EXCEPT !.param = 1000000 \div frequency, !.tc = 30]
  ELSE [src EXCEPT !.param = frequency, !.tc = 30]

\* the retune of noteUpdate, by the class of the stored source node
retune(src, frequency) ==
  IF src.kind = "osc"
  THEN [src EXCEPT !.param = frequency, !.tc = 30]
  ELSE IF src.kind = "delay"
  THEN [src EXCEPT !.param = 1000000 \div frequency, !.tc = 30]
  ELSE src

\* noteUpdate with the filter retargeted outside the test for a stored note
noteUpdate_cutoffOutsideGuard(id, frequency, modX, modY) ==
  IF ctx
  THEN /\ voices' = IF mapHas(activeNotes, id)
                    THEN [voices EXCEPT ![activeNotes[id]].oscillator =
                                          retune(@, frequency)]
                    ELSE voices
       /\ chain' = IF has(chain, "filterFreq")
                   THEN [chain EXCEPT !.filterFreq =
                           clampCutoff(expressiveCutoff(preset, modY))]
                   ELSE chain
       /\ UNCHANGED <<ctx, preset, activeNotes, timers, now, recorder,
                      recorders, recordChunks, promises, loopSources,
                      activeLoops>>
  ELSE UNCHANGED vars

\* noteUpdate that never lowers the cutoff target an earlier call wrote
noteUpdate_keepsHigherCutoff(id, frequency, modX, modY) ==
  IF mapHas(activeNotes, id) /\ ctx
  THEN /\ voices' = [voices EXCEPT ![activeNotes[id]].oscillator =
                                      retune(@, frequency)]
       /\ chain' = IF has(chain, "filterFreq")
                   THEN LET c == clampCutoff(expressiveCutoff(preset, modY))
                        IN  [chain EXCEPT !.filterFreq =
                               IF c > @ THEN c ELSE @]
                   ELSE chain
       /\ UNCHANGED <<ctx, preset, activeNotes, timers, now, recorder,
                      recorders, recordChunks, promises, loopSources,
                      activeLoops>>
  ELSE UNCHANGED vars

noteUpdate(id, frequency, modX, modY) ==
  IF mapHas(activeNotes, id) /\ ctx
  THEN /\ voices' = [voices EXCEPT ![activeNotes[id]].oscillator =
                                      retune(@, frequency)]
       /\ chain' = IF has(chain, "filterFreq")
                   THEN [chain EXCEPT !.filterFreq =
                           clampCutoff(expressiveCutoff(preset, modY))]
                   ELSE chain
       /\ UNCHANGED <<ctx, preset, activeNotes, timers, now, recorder,
                      recorders, recordChunks, promises, loopSources,
                      activeLoops>>
  ELSE UNCHANGED vars

\* cancelScheduledValues that drops nothing
cancelScheduledValues_none(env, t) == env

\* cancelScheduledValues(t): the events at or after t are dropped
cancelScheduledValues(env, t) == SelectSeq(env, LAMBDA e : e.t < t)

\* the release of noteOff: cancel, hold the value read from the parameter,
\* ramp to 0.001
releaseEnvelope(env, t, p) ==
  cancelScheduledValues(env, t)
    \o << [k |-> "set", v |-> Snapshot, t |-> t],
          [k |-> "exponential", v |-> 10, t |-> t + p.release] >>

\* setTimeout(callback, delay): a pending timer holds what its callback
\* captured, the id and the voice, and the time it is due; n tells timers
\* apart that are alike in all of these
setTimeout(id, v, due) ==
  [id |-> id, v |-> v, due |-> due,
   n |-> 1 + Cardinality({t \in timers :
                            t.id = id /\ t.v = v /\ t.due = due})]

\* the delay without the 100 ms of slack
teardownDelay_noSlack(p) == p.release

\* the delay handed to setTimeout
teardownDelay(p) == p.release + 100

\* noteOff without the branch for drums
noteOff_noDrumsBranch(id) ==
  IF mapHas(activeNotes, id) /\ ctx
  THEN /\ Cardinality(timers) < MaxTimers
       /\ voices' = [voices EXCEPT ![activeNotes[id]].envelope =
                                     releaseEnvelope(@, now, preset)]
       /\ timers' = timers \cup
            {setTimeout(id, activeNotes[id], now + teardownDelay(preset))}
       /\ UNCHANGED <<ctx, chain, preset, activeNotes, now, recorder,
                      recorders, recordChunks, promises, loopSources,
                      activeLoops>>
  ELSE UNCHANGED vars

\* noteOff(id) while fewer than cap teardown timers are pending
noteOffWithin(id, cap) ==
  IF mapHas(activeNotes, id) /\ ctx
  THEN IF preset.waveform = "drums"
       THEN /\ activeNotes' = mapDelete(activeNotes, id)
            /\ UNCHANGED <<ctx, chain, preset, voices, timers, now, recorder,
                           recorders, recordChunks, promises, loopSources,
                           activeLoops>>
       ELSE /\ Cardinality(timers) < cap
            /\ voices' = [voices EXCEPT ![activeNotes[id]].envelope =
                                          releaseEnvelope(@, now, preset)]
            /\ timers' = timers \cup
                 {setTimeout(id, activeNotes[id], now + teardownDelay(preset))}
            /\ UNCHANGED <<ctx, chain, preset, activeNotes, now, recorder,
                           recorders, recordChunks, promises, loopSources,
                           activeLoops>>
  ELSE UNCHANGED vars

noteOff(id) == noteOffWithin(id, MaxTimers)

\* the callback noteOff hands to setTimeout; note is the voice captured by
\* the closure, id the captured id
teardownVoice(note) ==
  [note EXCEPT !.oscillator.oscs = IF note.oscillator.kind = "osc" THEN 0 ELSE @,
               !.sourceConnected = FALSE,
               !.connected = FALSE]

teardownTable(table, t) == mapDelete(table, t.id)

teardown(t) ==
  /\ t \in timers
  /\ t.due <= now
  /\ voices' = [voices EXCEPT ![t.v] = teardownVoice(@)]
  /\ activeNotes' = teardownTable(activeNotes, t)
  /\ timers' = timers \ {t}
  /\ UNCHANGED <<ctx, chain, preset, now, recorder, recorders, recordChunks,
                 promises, loopSources, activeLoops>>

\* the clock: a due callback runs before time moves on
tick ==
  /\ now < MaxTicks * TickMs
  /\ \A t \in timers : t.due > now
  /\ now' = now + TickMs
  /\ UNCHANGED engine

\* the targets updatePreset gives the nodes that exist
applyPreset(ch, p) ==
  [ch EXCEPT
     !.filterFreq = IF has(ch, "filterFreq") THEN p.filterCutoff ELSE @,
     !.filterQ = IF has(ch, "filterFreq") THEN p.resonance ELSE @,
     !.delayTime = IF has(ch, "delayTime") THEN p.delayTime ELSE @,
     !.delayGain = IF has(ch, "delayGain") THEN p.delayFeedback ELSE @,
     !.curve = IF has(ch, "curve") THEN p.distortion ELSE @]

\* updatePreset that also sets the pending teardowns to the new release
updatePreset_reschedulesTeardowns(newPreset) ==
  /\ preset' = mergePreset(preset, newPreset)
  /\ chain' = IF ctx THEN applyPreset(chain, preset') ELSE chain
  /\ timers' = {[t EXCEPT !.due = now + teardownDelay(preset')] : t \in timers}
  /\ UNCHANGED <<ctx, voices, activeNotes, now, recorder, recorders,
                 recordChunks, promises, loopSources, activeLoops>>

updatePreset(newPreset) ==
  /\ preset' = mergePreset(preset, newPreset)
  /\ chain' = IF ctx THEN applyPreset(chain, preset') ELSE chain
  /\ UNCHANGED <<ctx, voices, activeNotes, timers, now, recorder, recorders,
                 recordChunks, promises, loopSources, activeLoops>>

\* setMasterVolume without the test for the context
setMasterVolume_unguarded(val) ==
  /\ chain' = [chain EXCEPT !.masterGain = val]
  /\ UNCHANGED <<ctx, preset, voices, activeNotes, timers, now, recorder,
                 recorders, recordChunks, promises, loopSources, activeLoops>>

setMasterVolume(val) ==
  IF has(chain, "masterGain") /\ ctx
  THEN /\ chain' = [chain EXCEPT !.masterGain = val]
       /\ UNCHANGED <<ctx, preset, voices, activeNotes, timers, now, recorder,
                      recorders, recordChunks, promises, loopSources,
                      activeLoops>>
  ELSE UNCHANGED vars

\* Capture. recorders holds every MediaRecorder built, recorder is the one
\* the engine's field refers to. A recorder has its state, the promise its
\* onstop handler resolves (the handler of the last stopRecording that
\* reached it) and whether its stop event is queued. promises holds the
\* promises of the stopRecording calls that did not resolve within the call.
\* recordChunks is the one chunk list of the engine: for each blob pushed by
\* an ondataavailable handler, the recorder that delivered it.

\* init(), then the early return unless dest exists; the chunk list is
\* emptied and a new recorder is started, which replaces the one in the
\* field; that one is left as it is. At most cap recorders are built.
startRecordingWithin(cap) ==
  /\ Len(recorders) < cap
  /\ ctx' = TRUE
  /\ chain' = init(ctx, chain, preset)
  /\ IF chain'.dest
     THEN /\ recordChunks' = << >>
          /\ recorders' = Append(recorders, [state |-> "recording",
                                             onstop |-> NoHandler,
                                             stopQueued |-> FALSE])
          /\ recorder' = Len(recorders) + 1
     ELSE UNCHANGED <<recorder, recorders, recordChunks>>
  /\ UNCHANGED <<preset, voices, activeNotes, timers, now, promises,
                 loopSources, activeLoops>>

startRecording == startRecordingWithin(MaxRecorders)

\* MediaRecorder.stop(): a recording recorder becomes inactive and its stop
\* event is queued. On an inactive recorder the call either throws
\* InvalidStateError, which rejects the promise whose executor made the
\* call, or returns having done nothing, by the version of the platform.
recorderStop(rec, handler) ==
  IF rec.state = "recording"
  THEN {[r |-> [state |-> "inactive", onstop |-> handler, stopQueued |-> TRUE],
         p |-> "pending"]}
  ELSE {[r |-> [rec EXCEPT !.onstop = handler], p |-> o] :
          o \in {"rejected", "pending"}}

\* resolves null within the call when there is no recorder or no context
\* (nothing is left behind); otherwise sets the recorder's onstop handler
\* to one that resolves the new promise and stops the recorder
stopRecording ==
  IF recorder = NoRecorder \/ ~ctx
  THEN UNCHANGED vars
  ELSE /\ Len(promises) < MaxStops
       /\ \E out \in recorderStop(recorders[recorder], Len(promises) + 1) :
            /\ recorders' = [recorders EXCEPT ![recorder] = out.r]
            /\ promises' = Append(promises, out.p)
       /\ UNCHANGED <<ctx, chain, preset, voices, activeNotes, timers, now,
                      recorder, recordChunks, loopSources, activeLoops>>

\* the stop of recorder r is delivered: its dataavailable event, whose
\* handler pushes the data of r onto the chunk list, then its stop event,
\* whose onstop handler runs: the chunks are decoded and the handler's
\* promise is resolved with the Loop; when decodeAudioData rejects, the
\* handler ends there
onstop(r, decodes) ==
  /\ r \in 1..Len(recorders)
  /\ recorders[r].stopQueued
  /\ recordChunks' = Append(recordChunks, r)
  /\ recorders' = [recorders EXCEPT ![r].stopQueued = FALSE]
  /\ promises' = IF decodes /\ promises[recorders[r].onstop] = "pending"
                 THEN [promises EXCEPT ![recorders[r].onstop] = "loop"]
                 ELSE promises
  /\ UNCHANGED <<ctx, chain, preset, voices, activeNotes, timers, now,
                 recorder, loopSources, activeLoops>>

\* init(), then the early return unless the context and the master gain
\* exist; the new source is stored under the loop's id whatever was stored
playLoop(loop) ==
  /\ Len(loopSources) < MaxLoopSources
  /\ ctx' = TRUE
  /\ chain' = init(ctx, chain, preset)
  /\ IF has(chain', "masterGain")
     THEN /\ loopSources' = Append(loopSources,
                                   [loop |-> loop, playing |-> TRUE])
          /\ activeLoops' = mapSet(activeLoops, loop, Len(loopSources) + 1)
     ELSE UNCHANGED <<loopSources, activeLoops>>
  /\ UNCHANGED <<preset, voices, activeNotes, timers, now, recorder, recorders,
                 recordChunks, promises>>

\* stopLoop that forgets the source without stopping it
stopLoop_noStop(id) ==
  IF mapHas(activeLoops, id)
  THEN /\ activeLoops' = mapDelete(activeLoops, id)
       /\ UNCHANGED <<ctx, chain, preset, voices, activeNotes, timers, now,
                      recorder, recorders, recordChunks, promises,
                      loopSources>>
  ELSE UNCHANGED vars

\* stopLoop that stops the source and keeps its entry
stopLoop_noDelete(id) ==
  IF mapHas(activeLoops, id)
  THEN /\ loopSources' = [loopSources EXCEPT ![activeLoops[id]].playing = FALSE]
       /\ UNCHANGED <<ctx, chain, preset, voices, activeNotes, timers, now,
                      recorder, recorders, recordChunks, promises,
                      activeLoops>>
  ELSE UNCHANGED vars

\* source.stop(), source.disconnect(), activeLoops.delete(id)
stopLoop(id) ==
  IF mapHas(activeLoops, id)
  THEN /\ loopSources' = [loopSources EXCEPT ![activeLoops[id]].playing = FALSE]
       /\ activeLoops' = mapDelete(activeLoops, id)
       /\ UNCHANGED <<ctx, chain, preset, voices, activeNotes, timers, now,
                      recorder, recorders, recordChunks, promises>>
  ELSE UNCHANGED vars

\* The operations, by the inputs they are given
NoteOn == \E id \in Ids, f \in Freqs, row \in Rows : noteOn(id, f, row)

NoteUpdate ==
  \E id \in Ids, f \in Freqs, mx \in ModXs, my \in ModYs :
    noteUpdate(id, f, mx, my)

NoteOff == \E id \in Ids : noteOff(id)

Teardown == \E t \in timers : teardown(t)

Tick == tick

UpdatePreset == \E p \in PresetInputs : updatePreset(p)

SetMasterVolume == \E val \in Volumes : setMasterVolume(val)

StartRecording == startRecording

StopRecording == stopRecording

InitThrows == \E k \in 0..(initStatements - 1) : initThrows(k)

OnStop == \E r \in 1..Len(recorders), decodes \in BOOLEAN : onstop(r, decodes)

PlayLoop == \E l \in LoopIds : playLoop(l)

StopLoop == \E l \in LoopIds : stopLoop(l)

Next ==
  \/ InitThrows
  \/ NoteOn
  \/ NoteUpdate
  \/ NoteOff
  \/ Teardown
  \/ Tick
  \/ UpdatePreset
  \/ SetMasterVolume
  \/ StartRecording
  \/ StopRecording
  \/ OnStop
  \/ PlayLoop
  \/ StopLoop

Spec == Init /\ [][Next]_vars

\* The voice lifecycle: notes, their teardown timers and the clock, under
\* changes of waveform family and release time
NextVoice ==
  \/ \E id \in Ids : noteOn(id, 220, 0)
  \/ NoteOff
  \/ Teardown
  \/ Tick
  \/ \E p \in VoiceInputs : updatePreset(p)

SpecVoice == Init /\ [][NextVoice]_vars

\* The lifecycle of the voices of one id
NextRelease ==
  \/ noteOn(1, 220, 0)
  \/ noteOff(1)
  \/ Teardown
  \/ Tick
  \/ \E p \in VoiceInputs : updatePreset(p)

SpecRelease == Init /\ [][NextRelease]_vars

\* Two pointers' notes released and torn down while the family changes
\* between guitar and drums, the release at 100 ms
DrumInputs == { [waveform |-> w, release |-> 100] : w \in {"guitar", "drums"} }

NextDrums ==
  \/ \E id \in Ids : noteOn(id, 220, 0)
  \/ NoteOff
  \/ Teardown
  \/ Tick
  \/ \E p \in DrumInputs : updatePreset(p)

SpecDrums == Init /\ [][NextDrums]_vars

\* The effects chain and the resonators: notes built and retuned under
\* changes of the chain's and the strings' settings
NextChain ==
  \/ \E f \in Freqs, row \in Rows : noteOn(1, f, row)
  \/ \E f \in Freqs, mx \in ModXs, my \in ModYs : noteUpdate(1, f, mx, my)
  \/ \E p \in ChainInputs : updatePreset(p)

SpecChain == Init /\ [][NextChain]_vars

\* Expression: notes retuned and released while the clock runs
NextExpress ==
  \/ \E id \in Ids : noteOn(id, 220, 0)
  \/ \E id \in Ids, mx \in ModXs : noteUpdate(id, 440, mx, 50)
  \/ NoteOff
  \/ Teardown
  \/ Tick
  \/ updatePreset([release |-> 100])

SpecExpress == Init /\ [][NextExpress]_vars

\* Capture and loops, with the operations that are guarded by the context
NextCapture ==
  \/ noteOn(1, 220, 0)
  \/ noteUpdate(1, 440, 0, 50)
  \/ NoteOff
  \/ updatePreset([delayFeedback |-> 9000])
  \/ SetMasterVolume
  \/ StartRecording
  \/ StopRecording
  \/ PlayLoop
  \/ StopLoop

SpecCapture == Init /\ [][NextCapture]_vars

\* Recording while notes and loops play; the stop event of a stopped
\* recorder is delivered in the end, decoding may succeed or fail
NextRecord ==
  \/ \E id \in Ids : noteOn(id, 220, 0)
  \/ StartRecording
  \/ StopRecording
  \/ OnStop
  \/ PlayLoop
  \/ StopLoop

SpecRecord == Init /\ [][NextRecord]_vars /\ WF_vars(OnStop)

\* The control surface: the preset changed while a note sounds, is bent and
\* released and a loop plays
NextPreset ==
  \/ noteOn(1, 220, 0)
  \/ \E my \in ModYs : noteUpdate(1, 440, 0, my)
  \/ noteOff(1)
  \/ PlayLoop
  \/ \E p \in PanelInputs : updatePreset(p)

SpecPreset == Init /\ [][NextPreset]_vars

\* Initialization that may fail at any statement, and the entry points
\* called afterwards
NextInit ==
  \/ InitThrows
  \/ noteOn(1, 220, 0)
  \/ \E my \in ModYs : noteUpdate(1, 440, 0, my)
  \/ \E p \in PanelInputs : updatePreset(p)
  \/ SetMasterVolume
  \/ StartRecording
  \/ PlayLoop

SpecInit == Init /\ [][NextInit]_vars

\* One note at a time under the piano, a plain oscillator and the string
\* model, released and torn down while the clock runs
NextFamilies ==
  \/ noteOn(1, 220, 0)
  \/ noteOff(1)
  \/ Teardown
  \/ Tick
  \/ \E p \in FamilyInputs : updatePreset(p)

SpecFamilies == Init /\ [][NextFamilies]_vars

\* A note released more than once before its teardown, as when pointerup
\* and pointerleave both reach handlePointerUp
NextRepeat ==
  \/ noteOn(1, 220, 0)
  \/ noteOffWithin(1, MaxRepeats)
  \/ Teardown
  \/ Tick
  \/ updatePreset([release |-> 100])

SpecRepeat == Init /\ [][NextRepeat]_vars

\* The shared filter cutoff: two pointers bending their notes while the
\* cutoff slider moves
CutoffInputs == { [filterCutoff |-> c] : c \in {10, 20000} }

NextCutoff ==
  \/ \E id \in Ids : noteOn(id, 220, 0)
  \/ \E id \in Ids, mx \in ModXs, my \in ModYs : noteUpdate(id, 440, mx, my)
  \/ \E p \in CutoffInputs : updatePreset(p)

SpecCutoff == Init /\ [][NextCutoff]_vars

\* The string resonators: notes built and bent while the waveform and the
\* string damping change between the ends of the slider
StringInputs ==
  { [waveform |-> w] : w \in {"guitar", "sawtooth", "slide"} }
  \cup { [stringDamping |-> d] : d \in {0, 100} }

NextString ==
  \/ \E f \in Freqs : noteOn(1, f, 0)
  \/ \E f \in Freqs : noteUpdate(1, f, 0, 0)
  \/ \E p \in StringInputs : updatePreset(p)

SpecString == Init /\ [][NextString]_vars

\* The plain oscillator voices: notes built and bent under the four
\* oscillator types and a detune of 0 or 10 cents
ToneInputs ==
  { [waveform |-> w] : w \in {"sine", "square", "sawtooth", "triangle"} }
  \cup { [detune |-> c] : c \in {0, 10} }

NextTone ==
  \/ \E f \in Freqs : noteOn(1, f, 0)
  \/ \E f \in Freqs : noteUpdate(1, f, 0, 0)
  \/ \E p \in ToneInputs : updatePreset(p)

SpecTone == Init /\ [][NextTone]_vars

\* Recordings started over one another: startRecording with no stopRecording
\* between, or before the stop of the earlier recorder is delivered
NextTakes ==
  \/ startRecordingWithin(MaxTakes)
  \/ StopRecording
  \/ OnStop
  \/ noteOn(1, 220, 0)
  \/ PlayLoop

SpecTakes == Init /\ [][NextTakes]_vars

----------------------------------------------------------------------------
\* Vocabulary of the claims

Voices == 1..Len(voices)

\* the voice is stored under its id in the active table
stored(v) == activeNotes[voices[v].id] = v

\* the fragment is still in the graph: its gain feeds the distortion input
live(v) == voices[v].connected

\* torn down: out of the table and out of the graph
destroyed(v) ==
  /\ ~stored(v)
  /\ ~voices[v].connected
  /\ ~voices[v].sourceConnected

pendingFor(v) == {t \in timers : t.v = v}

\* the last two gain events are the release of a noteOff: a hold of the
\* value read, then the exponential ramp to 0.001
inRelease(note) ==
  LET env == note.envelope
      n == Len(env)
  IN  /\ n >= 2
      /\ env[n - 1].k = "set" /\ env[n - 1].v = Snapshot
      /\ env[n].k = "exponential" /\ env[n].v = 10
      /\ env[n].t >= env[n - 1].t

releaseEnd(note) == note.envelope[Len(note.envelope)].t

\* a step that is a call of the operation with some arguments
isNoteOn(id) == \E f \in Freqs, row \in Rows : noteOn(id, f, row)

isNoteUpdate(id) ==
  \E f \in Freqs, mx \in ModXs, my \in ModYs : noteUpdate(id, f, mx, my)

----------------------------------------------------------------------------
\* C1: in every reachable state each note id has at most one live voice
\* fragment; noteOn(id, f) then noteOn(id, f2) leaves one live voice for id.
C1_OneLiveVoicePerId ==
  \A i \in Ids : Cardinality({v \in Voices : voices[v].id = i /\ live(v)}) <= 1

\* C2: a teardown that fires when its voice is no longer the one stored
\* under its id leaves the active table unchanged.
C2_TeardownActsOnOwnVoice ==
  [][\A t \in timers :
       (teardown(t) /\ activeNotes[t.id] # t.v) => activeNotes' = activeNotes]_vars

\* a noteOff(id) that finds a stored voice and a context
noteOffOnStored(id) == mapHas(activeNotes, id) /\ ctx /\ noteOff(id)

\* the timer a noteOff(id) called now sets up for the stored voice
scheduledTeardown(id) ==
  setTimeout(id, activeNotes[id], now + preset.release + 100)

\* the voice is out of the table by the end of its release plus 100 ms: at
\* that time it is stored only while its teardown is due and about to run
outByDeadline(v) ==
  (inRelease(voices[v]) /\ stored(v) /\ now >= releaseEnd(voices[v]) + 100)
    => /\ now = releaseEnd(voices[v]) + 100
       /\ \E t \in pendingFor(v) : t.due = now

\* no later noteOn has reused the voice's id
newest(v) == \A w \in Voices : voices[w].id = voices[v].id => w <= v

\* C3 (as claimed): after a non-drum noteOff at t_off with release R the
\* voice is in the active table at every time before t_off + R and absent
\* by t_off + R + 100 ms. Stated for the voices whose id no later noteOn
\* has reused, where no overwrite is involved.
C3_RemovedWithinWindow ==
  \A v \in Voices :
    /\ (inRelease(voices[v]) /\ newest(v) /\ now < releaseEnd(voices[v]))
         => stored(v)
    /\ outByDeadline(v)

\* the operations that take a stored voice out of the table
removalCause(id) ==
  \/ isNoteOn(id)
  \/ preset.waveform = "drums" /\ noteOff(id)
  \/ \E t \in timers : t.id = id /\ t.due <= now /\ teardown(t)

\* C3 (amended): the noteOff schedules the voice's teardown for exactly
\* t_off + R + 100 ms, the teardown does not run before its time and takes
\* the voice out of the table, so the voice is absent by t_off + R + 100 ms;
\* before that only another operation on the same id takes it out (a noteOn
\* storing a new voice, a noteOff under drums, another noteOff's teardown).
C3_AbsentByDeadline ==
  /\ [](\A v \in Voices : outByDeadline(v))
  /\ [][/\ \A i \in Ids :
             (noteOffOnStored(i) /\ preset.waveform # "drums")
               => timers' = timers \cup {scheduledTeardown(i)}
        /\ \A t \in timers :
             teardown(t) => (now >= t.due /\ activeNotes'[t.id] # t.v)
        /\ \A i \in Ids :
             (mapHas(activeNotes, i) /\ activeNotes'[i] # activeNotes[i])
               => removalCause(i)]_vars

\* a voice whose noteOff was called non-drum at t_off = 0 with R = 100 and
\* whose teardown has run at 200
C3_Witness ==
  \E v \in Voices :
    /\ inRelease(voices[v]) /\ releaseEnd(voices[v]) + 100 = now
    /\ destroyed(v)
    /\ pendingFor(v) = {}

\* C4: every voice for which noteOff is called is eventually destroyed,
\* whatever updatePreset calls came between: each noteOff on a stored voice
\* either destroys it or leaves a teardown pending for it (nothing but a
\* teardown disconnects a voice).
C4_NoteOffLeadsToDestruction ==
  [][\A i \in Ids :
       \A v \in Voices :
         (v = activeNotes[i] /\ noteOffOnStored(i))
           => \/ destroyed(v)'
              \/ \E t \in timers' : t.v = v]_vars

\* C5: once the engine is initialized the feedback gain of the shared delay
\* line is strictly below 1.0, right after initialization and after any
\* updatePreset.
C5_DelayFeedbackBelowUnity == ctx => chain.delayGain < Unity

\* C6: the resonator loop of every string-family voice has a feedback gain
\* strictly below 1.0, whatever stringDamping was supplied.
C6_StringFeedbackBelowUnity ==
  \A v \in Voices :
    voices[v].oscillator.kind = "delay" => voices[v].oscillator.fb < Unity

\* C7: noteUpdate and noteOff on an id that is not in the active table
\* change nothing: table, timers, every voice and the filter cutoff target
\* stay as they are.
C7_UnknownIdIsNoOp ==
  [][\A i \in Ids :
       (~mapHas(activeNotes, i) /\ (noteOff(i) \/ isNoteUpdate(i)))
         => UNCHANGED engine]_vars

\* an id whose voice was torn down is absent while another voice is stored
\* and retuned and the cutoff has been retargeted by a noteUpdate
C7_Witness ==
  /\ ctx
  /\ \E i \in Ids :
       /\ ~mapHas(activeNotes, i)
       /\ \E v \in Voices : voices[v].id = i /\ destroyed(v)
  /\ \E v \in Voices : stored(v) /\ voices[v].oscillator.tc = 30
  /\ chain.filterFreq = 6000

\* the operations that never initialize
guardedCall ==
  \/ \E i \in Ids : noteOff(i) \/ isNoteUpdate(i)
  \/ \E val \in Volumes : setMasterVolume(val)
  \/ stopRecording
  \/ \E l \in LoopIds : stopLoop(l)

initializingCall == startRecording \/ \E l \in LoopIds : playLoop(l)

mergesOnly ==
  \A p \in PresetInputs :
    updatePreset(p)
      => /\ preset' = mergePreset(preset, p)
         /\ UNCHANGED <<ctx, chain, voices, activeNotes, timers, recorder,
                        recorders, recordChunks, promises, loopSources,
                        activeLoops>>

\* C8 (as claimed): before the first noteOn every other public operation is
\* inert, leaving the engine uninitialized, and updatePreset only merges.
C8_InertBeforeFirstNoteOn ==
  [][(~ctx /\ Len(voices) = 0)
       => /\ (guardedCall \/ initializingCall) => UNCHANGED engine
          /\ mergesOnly]_vars

\* C8 (amended): before the engine is initialized noteUpdate, noteOff,
\* setMasterVolume, stopRecording and stopLoop are inert and updatePreset only
\* merges; startRecording and playLoop initialize the engine as noteOn does.
C8_InertUntilInitialized ==
  [][~ctx
       => /\ guardedCall => UNCHANGED engine
          /\ initializingCall => (ctx' /\ chain' = initChain(preset))
          /\ mergesOnly]_vars

\* the preset was merged before initialization and startRecording then
\* initialized the engine, no noteOn having been called
C8_Witness ==
  /\ ctx
  /\ Len(voices) = 0
  /\ recorder # NoRecorder
  /\ recorders[recorder].state = "recording"
  /\ preset # defaultPreset
  /\ chain = initChain(preset)

\* what one noteOff call does, by the family of the active preset
noteOffEffect(id) ==
  LET v == activeNotes[id]
  IN  IF preset.waveform = "drums"
      THEN /\ activeNotes'[id] = NoEntry
           /\ timers' = timers
           /\ voices' = voices
      ELSE /\ inRelease(voices'[v])
           /\ releaseEnd(voices'[v]) = now + preset.release
           /\ scheduledTeardown(id) \in timers'
           /\ activeNotes' = activeNotes

\* C9 (as claimed): noteOff under drums removes the entry within the call
\* with no ramp and no timer; under any other family it issues the release
\* ramp and the entry stays in the table until the teardown timer fires.
\* Stated for the steps that are no noteOn(id), where no overwrite is
\* involved.
C9_EntryStaysUntilTeardown ==
  [][\A i \in Ids :
       /\ noteOffOnStored(i) => noteOffEffect(i)
       /\ (/\ mapHas(activeNotes, i)
           /\ pendingFor(activeNotes[i]) # {}
           /\ activeNotes'[i] # activeNotes[i]
           /\ ~isNoteOn(i))
            => \E t \in timers : teardown(t)]_vars

\* C9 (amended): as claimed for the call itself; afterwards the entry stays
\* until a teardown timer for the id fires, unless a noteOn(id) stores a new
\* voice over it or a noteOff(id) under drums removes it first.
C9_NoteOffByFamily ==
  [][\A i \in Ids :
       /\ noteOffOnStored(i) => noteOffEffect(i)
       /\ (/\ mapHas(activeNotes, i)
           /\ pendingFor(activeNotes[i]) # {}
           /\ activeNotes'[i] # activeNotes[i])
            => removalCause(i)]_vars

\* both paths taken: one voice removed at once under drums and still wired,
\* another in release with its teardown pending and still stored
C9_Witness ==
  /\ \E v \in Voices : ~stored(v) /\ live(v) /\ ~inRelease(voices[v])
                        /\ activeNotes[voices[v].id] = NoEntry
  /\ \E v \in Voices : stored(v) /\ inRelease(voices[v]) /\ pendingFor(v) # {}

\* C10: noteOn(id) on an id that holds a voice triggers that voice's
\* retirement (release and teardown) before the new voice is stored.
C10_PriorVoiceRetiredFirst ==
  [][\A i \in Ids :
       (mapHas(activeNotes, i) /\ isNoteOn(i))
         => LET v == activeNotes[i]
            IN  \/ inRelease(voices'[v]) /\ \E t \in timers' : t.v = v
                \/ ~voices'[v].connected]_vars

\* the sources started for a loop and not stopped (a started source stays
\* connected to the master gain until stopLoop stops and disconnects it)
playingSources(l) ==
  {n \in 1..Len(loopSources) :
     loopSources[n].loop = l /\ loopSources[n].playing}

\* every source that plays is the one stored under its loop id
onlyStoredPlays == \A l \in LoopIds : playingSources(l) \subseteq {activeLoops[l]}

\* the guard of the caller: playLoop only for a loop that is not playing
playGuarded == \A l \in LoopIds : playLoop(l) => ~mapHas(activeLoops, l)

\* C11 (as claimed): in every reachable state, for any sequence of playLoop
\* and stopLoop calls, each loop id has at most one playback source that is
\* started and not stopped.
C11_OnePlayingSourcePerLoop ==
  \A l \in LoopIds : Cardinality(playingSources(l)) <= 1

\* C11 (amended): as long as playLoop is called only for a loop that has no
\* source stored (the caller's isPlaying guard), every playing source is the
\* one stored under its loop id, so each loop id has at most one.
C11_OnePlayingWhenGuarded ==
  [][(onlyStoredPlays /\ playGuarded)
       => /\ onlyStoredPlays'
          /\ \A l \in LoopIds : Cardinality(playingSources(l))' <= 1]_vars

\* a loop played, stopped and played again: its first source is stopped,
\* its second plays and is the stored one
C11_Witness ==
  /\ Len(loopSources) = 2
  /\ \E l \in LoopIds :
       /\ loopSources[1].loop = l /\ ~loopSources[1].playing
       /\ playingSources(l) = {2} /\ activeLoops[l] = 2

\* what stopLoop(l) leaves behind
stopLoopEffect(l) ==
  IF mapHas(activeLoops, l)
  THEN /\ playingSources(l)' = {}
       /\ activeLoops'[l] = NoEntry
  ELSE UNCHANGED vars

\* C12 (as claimed): after playLoop(loop) then stopLoop(loop.id) no source
\* of the loop remains started or connected and the table has no entry for
\* the id; stopLoop on an id with no source changes nothing.
C12_NoResidualSource ==
  [][\A l \in LoopIds : stopLoop(l) => stopLoopEffect(l)]_vars

\* C12 (amended): the same, for a playLoop that was called while the loop
\* had no source stored, so that every playing source is the stored one.
C12_NoResidualWhenGuarded ==
  [][\A l \in LoopIds :
       (onlyStoredPlays /\ stopLoop(l)) => stopLoopEffect(l)]_vars

\* a loop was played once and stopped: its source is stopped and the table
\* is empty again
C12_Witness ==
  /\ Len(loopSources) = 1
  /\ ~loopSources[1].playing
  /\ activeLoops[loopSources[1].loop] = NoEntry

\* C13: stopRecording always completes with a value: the promise of every
\* call is resolved in the end, with a Loop when the capture decodes and with
\* null otherwise; it is never rejected and never stays pending forever.
C13_StopRecordingCompletes ==
  \A n \in 1..MaxStops :
    (Len(promises) >= n)
      ~> (Len(promises) >= n /\ promises[n] \in {"loop", "null"})

\* C14: updatePreset changes only the active preset and the shared chain's
\* targets and curve: the active table, every voice's nodes and parameters,
\* the pending teardown timers and their deadlines and the loop sources stay
\* as they are (and so do the context, the master gain and the recorders).
C14_UpdatePresetFrame ==
  [][\A p \in PresetInputs :
       updatePreset(p)
         => /\ UNCHANGED <<ctx, voices, activeNotes, timers, recorder,
                           recorders, recordChunks, promises, loopSources,
                           activeLoops>>
            /\ chain'.masterGain = chain.masterGain]_vars

\* the release was changed to 100 ms while a voice released under 800 ms
\* waits for its teardown at 900 ms and a loop plays
C14_Witness ==
  /\ ctx /\ preset.release = 100 /\ chain.filterFreq = preset.filterCutoff
  /\ \E t \in timers : t.due = 900 /\ stored(t.v) /\ inRelease(voices[t.v])
  /\ \E l \in LoopIds : playingSources(l) # {}

\* C15: updatePreset(p) sets each field present in p to p's value and leaves
\* every other field as it was, initialized or not; applying the same p a
\* second time yields the same preset.
C15_MergeSetsPresentFields ==
  [][\A p \in PresetInputs :
       updatePreset(p)
         => /\ \A k \in DOMAIN p : preset'[k] = p[k]
            /\ \A k \in DOMAIN preset \ DOMAIN p : preset'[k] = preset[k]
            /\ mergePreset(preset', p) = preset']_vars

\* before initialization three partial presets were merged one after the
\* other, one of them of two fields; the other fields are the defaults
C15_Witness ==
  /\ ~ctx
  /\ preset = [defaultPreset EXCEPT !.waveform = "piano", !.release = 100,
                                    !.filterCutoff = 20000, !.distortion = 0]

\* C16: once the engine is initialized the cutoff target of the shared
\* filter is within 20..18000 Hz, whichever of noteUpdate and updatePreset
\* wrote it last.
C16_CutoffTargetClamped ==
  ctx => (chain.filterFreq >= 20 /\ chain.filterFreq <= 18000)

\* the fractions a and b are negatives of each other
negatives(a, b) == a.num * b.den = -(b.num * a.den)

complete(ch) ==
  /\ \A f \in {"masterGain", "filterFreq", "filterQ", "delayTime",
                "delayGain"} : has(ch, f)
  /\ ch.curve \notin {NoNode, NoCurve}
  /\ ch.dest
  /\ ch.wires = initWires

\* C18: an initialization that fails at any step leaves the engine fully
\* uninitialized, so that the next initializing entry point retries: the
\* context is never stored with an incomplete effects chain.
C18_FailedInitLeavesUninitialized ==
  /\ ctx => complete(chain)
  /\ ~ctx => chain = noChain

\* C19: when a voice's teardown fires, whatever its family, every
\* oscillator noteOn started for it is stopped (all three of a piano voice),
\* its source and gain nodes are disconnected and the voice is out of the
\* active table.
C19_TeardownStopsEverySource ==
  [][\A t \in timers :
       teardown(t)
         => /\ voices'[t.v].oscillator.oscs = 0
            /\ ~voices'[t.v].sourceConnected
            /\ ~voices'[t.v].connected
            /\ activeNotes'[t.id] # t.v]_vars

\* the release events a noteOff called now appends
holdAndRamp ==
  << [k |-> "set", v |-> Snapshot, t |-> now],
     [k |-> "exponential", v |-> 10, t |-> now + preset.release] >>

\* the events of a schedule before time t, and those at or after t
before(env, t) == SelectSeq(env, LAMBDA e : e.t < t)

fromTime(env, t) == SelectSeq(env, LAMBDA e : e.t >= t)

\* C20 (as claimed): in the release path of noteOff every gain event that
\* noteOn scheduled is cancelled first; afterwards the voice's gain schedule
\* consists only of the hold at the value read and the exponential ramp to
\* 0.001 ending at now + release, and the ramp's target is not 0.
C20_ScheduleIsHoldAndRamp ==
  [][\A i \in Ids :
       (noteOffOnStored(i) /\ preset.waveform # "drums")
         => LET v == activeNotes[i]
            IN  /\ voices'[v].envelope = holdAndRamp
                /\ holdAndRamp[2].v # 0]_vars

\* C20 (amended): the events still pending (timed at now or later) are
\* cancelled and the events already past stay in the schedule; from now on
\* the schedule consists only of the hold and the exponential ramp to 0.001
\* ending at now + release, and the ramp's target is not 0.
C20_PendingEventsCancelled ==
  [][\A i \in Ids :
       (noteOffOnStored(i) /\ preset.waveform # "drums")
         => LET v == activeNotes[i]
            IN  /\ fromTime(voices'[v].envelope, now) = holdAndRamp
                /\ before(voices'[v].envelope, now)
                     = before(voices[v].envelope, now)
                /\ holdAndRamp[2].v # 0]_vars

\* a piano voice released 100 ms after its noteOn: the start and the attack
\* are past and stay, the decay to 0.01 at 2 s is gone, the release follows
C20_Witness ==
  \E v \in Voices :
    /\ voices[v].oscillator.kind = "gain"
    /\ inRelease(voices[v])
    /\ Len(voices[v].envelope) = 4
    /\ voices[v].envelope[2] = [k |-> "linear", v |-> 6000, t |-> 5]
    /\ voices[v].envelope[3].t = 100

\* C21: noteOff(id) is idempotent: a noteOff(id) called again before the
\* teardown fires changes nothing, leaving the one pending teardown at its
\* deadline and the release ramp as the first call set them.
C21_NoteOffIdempotent ==
  [][\A i \in Ids :
       (/\ mapHas(activeNotes, i) /\ ctx
        /\ inRelease(voices[activeNotes[i]])
        /\ pendingFor(activeNotes[i]) # {}
        /\ noteOffWithin(i, MaxRepeats))
         => UNCHANGED engine]_vars

\* C22: the filter cutoff target is one value shared by the voices, and the
\* most recent writer wins: a noteUpdate on a stored id leaves the target at
\* the value of that call, an updatePreset leaves it at the cutoff of the
\* merged preset, whatever an earlier call for another id wrote; either call
\* changes nothing else of a voice than the pitch of the voice it names, and
\* a noteOn on the initialized engine leaves the target alone.
C22_LastWriterWins ==
  [][(ctx /\ has(chain, "filterFreq")) =>
       /\ \A i \in Ids, mx \in ModXs, my \in ModYs :
            (mapHas(activeNotes, i) /\ noteUpdate(i, 440, mx, my))
              => /\ chain'.filterFreq =
                      clampCutoff(expressiveCutoff(preset, my))
                 /\ \A v \in Voices :
                      v # activeNotes[i] => voices'[v] = voices[v]
       /\ \A p \in CutoffInputs :
            updatePreset(p)
              => chain'.filterFreq = p.filterCutoff /\ voices' = voices
       /\ \A i \in Ids :
            noteOn(i, 220, 0) => chain'.filterFreq = chain.filterFreq]_vars

\* two stored voices both retuned by noteUpdate, the target at the value of
\* a noteUpdate made after the slider was moved to its top
C22_Witness ==
  /\ \A i \in Ids :
       mapHas(activeNotes, i) /\ voices[activeNotes[i]].oscillator.tc = 30
  /\ preset.filterCutoff = 20000
  /\ chain.filterFreq = 18000

\* C23: noteUpdate on a stored voice sets the cutoff target to
\* min(18000, max(20, preset.filterCutoff + 4000 * modY)), and what the call
\* does is the same for every modX.
C23_CutoffIsClampedSum ==
  [][\A i \in Ids, mx \in ModXs, my \in ModYs :
       (/\ mapHas(activeNotes, i) /\ ctx /\ has(chain, "filterFreq")
        /\ noteUpdate(i, 440, mx, my))
         => /\ LET c == preset.filterCutoff + (4000 * my) \div 100
               IN  chain'.filterFreq =
                     IF c < 20 THEN 20 ELSE IF c > 18000 THEN 18000 ELSE c
            /\ \A mx2 \in ModXs : noteUpdate(i, 440, mx2, my)]_vars

\* a stored, retuned voice with the target raised to the lower bound
C23_Witness ==
  /\ \E i \in Ids :
       mapHas(activeNotes, i) /\ voices[activeNotes[i]].oscillator.tc = 30
  /\ preset.filterCutoff = 10
  /\ chain.filterFreq = 20

\* C24: noteUpdate retunes a stored voice by the source node the voice was
\* built with: an oscillator gets the frequency target f, a string resonator
\* the delay-length target 1/f, each with a time constant of 30 ms, whatever
\* the waveform of the preset is when the update is made.
C24_RetuneBySourceBuilt ==
  [][\A f \in Freqs :
       (mapHas(activeNotes, 1) /\ ctx /\ noteUpdate(1, f, 0, 0))
         => LET was == voices[activeNotes[1]].oscillator
                src == voices'[activeNotes[1]].oscillator
            IN  /\ src.kind = was.kind
                /\ was.kind = "osc" => src.param = f /\ src.tc = 30
                /\ was.kind = "delay"
                     => src.param = 1000000 \div f /\ src.tc = 30]_vars

\* a string voice retuned to 1/440 s while the preset names a plain waveform
C24_Witness ==
  /\ mapHas(activeNotes, 1)
  /\ preset.waveform = "sawtooth"
  /\ LET src == voices[activeNotes[1]].oscillator
     IN  src.kind = "delay" /\ src.param = 2272 /\ src.tc = 30

\* C25: for a string damping d between 0 and 1 a guitar or string voice is
\* built with the feedback gain 0.985 - 0.05 d, a slide voice with 0.995
\* whatever d is, and both gains are below 1.
C25_FeedbackOfStringVoices ==
  [][\A f \in Freqs :
       (/\ noteOn(1, f, 0) /\ Len(voices') > Len(voices)
        /\ preset.stringDamping >= 0 /\ preset.stringDamping <= 100)
         => LET src == voices'[Len(voices')].oscillator
            IN  /\ preset.waveform \in {"guitar", "string"}
                     => /\ src.fb + 5 * preset.stringDamping = 9850
                        /\ src.fb < Unity
                /\ preset.waveform = "slide"
                     => src.fb = 9950 /\ src.fb < Unity]_vars

\* a guitar voice built at full damping and a slide voice
C25_Witness ==
  /\ \E v \in Voices : voices[v].oscillator.fb = 9350
  /\ \E v \in Voices :
       voices[v].oscillator.fb = 9950 /\ voices[v].oscillator.lp = 12000

\* C26: the context and the nodes of the effects chain are created and wired
\* exactly once: every call of an initializing entry point (noteOn,
\* startRecording, playLoop) that returns leaves the context with the
\* complete chain, each connection made once, and a call made when the
\* context exists leaves the chain as it was.
C26_ChainBuiltExactlyOnce ==
  [][(noteOn(1, 220, 0) \/ initializingCall)
       => /\ ctx' /\ complete(chain')
          /\ ctx => chain' = chain]_vars

\* C27: a voice that noteOn builds under a plain waveform (sine, square,
\* sawtooth, triangle) is an oscillator at the requested frequency whose
\* detune parameter equals the detune of the preset.
C27_OscillatorDetuneIsPresetDetune ==
  [][\A f \in Freqs :
       (/\ noteOn(1, f, 0) /\ Len(voices') > Len(voices)
        /\ preset.waveform \in {"sine", "square", "sawtooth", "triangle"})
         => LET src == voices'[Len(voices')].oscillator
            IN  /\ src.kind = "osc" /\ src.param = f
                /\ src.detune = preset.detune]_vars

\* C28: in the runs where no noteUpdate is applied, once the engine is
\* initialized the targets of the effects chain (filter cutoff, filter Q,
\* delay time, delay feedback gain) equal the fields of the active preset,
\* also when the preset was written before the initialization.
C28_ChainTargetsFollowPreset ==
  ctx => /\ chain.filterFreq = preset.filterCutoff
         /\ chain.filterQ = preset.resonance
         /\ chain.delayTime = preset.delayTime
         /\ chain.delayGain = preset.delayFeedback

\* C29: every voice whose gain node is still connected to the distortion
\* input is controllable: it is the entry stored under its id in the active
\* table or a teardown timer is pending for it.
C29_ConnectedVoiceIsControllable ==
  \A v \in Voices : live(v) => stored(v) \/ pendingFor(v) # {}

\* C30: at most one recorder captures at any time, and the chunks collected
\* for the current recording were all delivered by its own recorder.
C30_OneRecorderCapturing ==
  /\ Cardinality({r \in 1..Len(recorders) :
                    recorders[r].state = "recording"}) <= 1
  /\ \A k \in 1..Len(recordChunks) : recordChunks[k] = recorder

====
